---- MODULE Spec2Model ----
(***************************************************************************)
(* A model of src/main.py: the VIPRpmShareBot relay.                       *)
(*                                                                         *)
(* State: the `users` table of user_data.db, the temporary files on disk,  *)
(* the wall clock that CURRENT_TIMESTAMP reads, and one record per handler *)
(* task (its position, its local variables and what it has sent so far).   *)
(* A handler is a coroutine: one action models the code between two        *)
(* suspension points (await), so handlers of different tasks interleave    *)
(* only there.  Every Credential Store method is synchronous and so is     *)
(* executed whole inside the action that calls it.                         *)
(*                                                                         *)
(* The messaging collaborator (reply_text, edit_text) and the remote       *)
(* provider are outside the program.  A message sent is recorded in the    *)
(* task's msgs; a remote call or a download comes back with any of its     *)
(* possible outcomes.  completed and saved are history variables: the      *)
(* uploads that reached the success status and the last key each user      *)
(* saved.                                                                  *)
(***************************************************************************)
EXTENDS Integers, Sequences, FiniteSets, TLC

VARIABLES users, files, clock, env, tasks, received, completed,
          saved

vars == <<users, files, clock, env, tasks, received, completed,
          saved>>

---------------------------------------------------------------------------
(* Bounds of the model *)

\* the updates the bot receives in one behaviour
MaxUpdates == 4
\* the wall clock stops advancing here
MaxClock == 1
\* the longest sequence of increments applied to a table
MaxIncrements == 3

---------------------------------------------------------------------------
(* Values *)

\* Python's None where a string is expected
None == "None"
\* the telegram user ids that send updates
UserIds == {1, 2}
\* the tokens a user can type after /setapi
Tokens == {"ABCDEF123456", "S3cr3t"}
\* context.args: the words after the command (none, or one token)
ArgLists == {<<>>} \cup {<<k>> : k \in Tokens}
\* the handler tasks the framework can have in flight at once
Tasks == {1, 2}

\* Python truthiness of a string-or-None
Truthy(s) == s # None /\ s # ""

\* an optional value as a set: {} is absent, {x} is x
Some(x) == {x}
The(o) == CHOOSE x \in o : TRUE

---------------------------------------------------------------------------
(* The users table: a set of rows.  user_id is the PRIMARY KEY. *)

Row(u, k, c, ts) ==
    [user_id |-> u, api_key |-> k, upload_count |-> c, created_at |-> ts]

\* WHERE user_id = ?
RowsOf(T, u) == {r \in T : r.user_id = u}

\* cursor.fetchone(): the first row of the result, or nothing
fetchone(S) == IF S = {} THEN {} ELSE Some(CHOOSE r \in S : TRUE)

\* mutant: the upsert writes the column default, VALUES (?, ?, 0)
CoalesceCountZero(T, u) == 0

\* COALESCE((SELECT upload_count FROM users WHERE user_id = ?), 0)
CoalesceCount(T, u) ==
    LET result == fetchone(RowsOf(T, u))
    IN  IF result # {} THEN The(result).upload_count ELSE 0

\* mutant: the insert leaves the user's old row in the table
InsertKeepsOld(T, u, k, c, now) == T \cup {Row(u, k, c, now)}

\* INSERT OR REPLACE: the rows that conflict on the primary key are deleted,
\* then the new row is inserted; created_at is not in the column list and
\* takes its DEFAULT CURRENT_TIMESTAMP
InsertOrReplace(T, u, k, c, now) ==
    (T \ RowsOf(T, u)) \cup {Row(u, k, c, now)}

\* mutant: the SELECT has no WHERE clause
get_user_api_key_any(T, u, fault) ==
    IF fault THEN None
    ELSE LET result == fetchone(T)
         IN  IF result # {} THEN The(result).api_key ELSE None

\* get_user_api_key: the stored key, None for no row, None on a fault
get_user_api_key(T, u, fault) ==
    IF fault THEN None
    ELSE LET result == fetchone(RowsOf(T, u))
         IN  IF result # {} THEN The(result).api_key ELSE None

\* mutant: the row is written although the call faults
save_user_api_key_torn(T, u, k, now, fault) ==
    [users |-> InsertOrReplace(T, u, k, CoalesceCount(T, u), now),
     ret   |-> ~fault]

\* the key the store holds for a user when it is read without a fault
StoredKey(u) == get_user_api_key(users, u, FALSE)

\* save_user_api_key: the table after the call and the value returned
save_user_api_key(T, u, k, now, fault) ==
    IF fault THEN [users |-> T, ret |-> FALSE]
    ELSE [users |-> InsertOrReplace(T, u, k, CoalesceCount(T, u), now),
          ret   |-> TRUE]

\* mutant: the UPDATE has no WHERE clause
increment_upload_count_all(T, u, fault) ==
    IF fault THEN T
    ELSE {[r EXCEPT !.upload_count = r.upload_count + 1] : r \in T}

\* mutant: SET upload_count = 1
increment_upload_count_one(T, u, fault) ==
    IF fault THEN T
    ELSE {IF r.user_id = u THEN [r EXCEPT !.upload_count = 1] ELSE r
            : r \in T}

\* increment_upload_count: the table after the call (a fault is swallowed)
increment_upload_count(T, u, fault) ==
    IF fault THEN T
    ELSE {IF r.user_id = u
             THEN [r EXCEPT !.upload_count = r.upload_count + 1]
             ELSE r : r \in T}

\* get_upload_stats: the stored count, 0 for no row, 0 on a fault
get_upload_stats(T, u, fault) ==
    IF fault THEN 0
    ELSE LET result == fetchone(RowsOf(T, u))
         IN  IF result # {} THEN The(result).upload_count ELSE 0

\* the environment of a behaviour: whether storage operations can fault,
\* and whether the wall clock advances between two saves
Env(faults, time) == [faults |-> faults, time |-> time]

\* a storage operation faults or not
FaultChoices == IF env.faults THEN BOOLEAN ELSE {FALSE}

\* CURRENT_TIMESTAMP at an INSERT: the clock, or a later time
NowChoices == IF env.time THEN clock..MaxClock ELSE {clock}

---------------------------------------------------------------------------
(* Messages *)

\* one outbound call on the messaging collaborator: reply_text or edit_text
Msg(op, tag, str, num) == [op |-> op, tag |-> tag, str |-> str, num |-> num]
Reply(tag) == Msg("reply", tag, "", 0)
Edit(tag)  == Msg("edit", tag, "", 0)

---------------------------------------------------------------------------
(* Tasks *)

\* a task slot with no handler running in it
IdleTask ==
    [kind |-> "idle", pc |-> "idle", user_id |-> 0, args |-> <<>>,
     file_size |-> 0, user_api_key |-> None, temp_file_path |-> {},
     attempt |-> 0, sleep |-> 0, upload_server |-> None,
     upload_response |-> {}, msgs |-> <<>>,
     created |-> 0, unlinked |-> 0, downloads |-> 0, server_calls |-> 0,
     submit_calls |-> 0, increments |-> 0, requests |-> {}]

Set(t, rec) == tasks' = [tasks EXCEPT ![t] = rec]

---------------------------------------------------------------------------
(* String helpers of the handlers *)

RECURSIVE Join(_)
\* ' '.join(args)
Join(args) ==
    IF Len(args) = 0 THEN ""
    ELSE IF Len(args) = 1 THEN Head(args)
    ELSE Head(args) \o " " \o Join(Tail(args))

RECURSIVE LStrip(_)
LStrip(s) ==
    IF Len(s) > 0 /\ SubSeq(s, 1, 1) = " " THEN LStrip(Tail(s)) ELSE s

RECURSIVE RStrip(_)
RStrip(s) ==
    IF Len(s) > 0 /\ SubSeq(s, Len(s), Len(s)) = " "
       THEN RStrip(SubSeq(s, 1, Len(s) - 1)) ELSE s

\* str.strip()
Strip(s) == RStrip(LStrip(s))

RECURSIVE Stars(_)
\* "*" * n: the empty string for n <= 0
Stars(n) == IF n <= 0 THEN "" ELSE "*" \o Stars(n - 1)

\* api_key[-6:]: the last 6 characters, the whole string if it is shorter
Last6(s) == IF Len(s) <= 6 THEN s ELSE SubSeq(s, Len(s) - 5, Len(s))

\* mutant: the first 6 characters are shown instead of the last
masked_key_head(api_key) ==
    Stars(Len(api_key) - 6)
        \o (IF Len(api_key) <= 6 THEN api_key ELSE SubSeq(api_key, 1, 6))

\* masked_key = "*" * (len(api_key) - 6) + api_key[-6:]
masked_key(api_key) == Stars(Len(api_key) - 6) \o Last6(api_key)

---------------------------------------------------------------------------
(* Dispatch: the framework hands an update to its handler in a free task *)

Free(t) == tasks[t].pc = "idle" /\ received < MaxUpdates

Begin(t, kind, u) ==
    [IdleTask EXCEPT !.kind = kind, !.pc = "begin", !.user_id = u]

DispatchStart(t, u) ==
    /\ Free(t)
    /\ Set(t, Begin(t, "start", u))
    /\ received' = received + 1
    /\ UNCHANGED <<users, files, clock, env, completed, saved>>

DispatchSetapi(t, u, args) ==
    /\ Free(t)
    /\ Set(t, [Begin(t, "setapi", u) EXCEPT !.args = args])
    /\ received' = received + 1
    /\ UNCHANGED <<users, files, clock, env, completed, saved>>

DispatchStats(t, u) ==
    /\ Free(t)
    /\ Set(t, Begin(t, "stats", u))
    /\ received' = received + 1
    /\ UNCHANGED <<users, files, clock, env, completed, saved>>

DispatchNonVideo(t, u) ==
    /\ Free(t)
    /\ Set(t, Begin(t, "nonvideo", u))
    /\ received' = received + 1
    /\ UNCHANGED <<users, files, clock, env, completed, saved>>

\* the handler has returned: the framework drops the task
Retire(t) ==
    /\ tasks[t].pc = "done"
    /\ Set(t, IdleTask)
    /\ UNCHANGED <<users, files, clock, env, received, completed,
                   saved>>

At(t, kind, pc) == tasks[t].kind = kind /\ tasks[t].pc = pc

---------------------------------------------------------------------------
(* The command handlers *)

\* start: one static reply
Start(t) ==
    /\ At(t, "start", "begin")
    /\ Set(t, [tasks[t] EXCEPT !.pc = "done", !.msgs = <<Reply("WELCOME")>>])
    /\ UNCHANGED <<users, files, clock, env, received, completed,
                   saved>>

\* setapi: usage reply without arguments, else save and confirm or report;
\* the INSERT reads CURRENT_TIMESTAMP, which may have advanced
Setapi(t) ==
    /\ At(t, "setapi", "begin")
    /\ LET user_id == tasks[t].user_id
           args == tasks[t].args
       IN  IF Len(args) = 0
           THEN /\ Set(t, [tasks[t] EXCEPT !.pc = "done",
                                           !.msgs = <<Reply("USAGE")>>])
                /\ UNCHANGED <<users, clock, saved>>
           ELSE \E fault \in FaultChoices, now \in NowChoices :
                  LET api_key == Strip(Join(args))
                      result == save_user_api_key(users, user_id, api_key,
                                                  now, fault)
                  IN  /\ users' = result.users
                      /\ clock' = now
                      /\ saved' = IF result.ret
                                     THEN [saved EXCEPT ![user_id] = api_key]
                                     ELSE saved
                      /\ Set(t, [tasks[t] EXCEPT
                                   !.pc = "done",
                                   !.user_api_key = api_key,
                                   !.msgs = <<Reply(IF result.ret
                                                      THEN "CONFIGURED"
                                                      ELSE "SAVE_ERROR")>>])
    /\ UNCHANGED <<files, env, received, completed>>

\* stats: registration prompt without a key, else masked key and count
Stats(t) ==
    /\ At(t, "stats", "begin")
    /\ \E f1 \in FaultChoices, f2 \in FaultChoices :
         LET user_id == tasks[t].user_id
             api_key == get_user_api_key(users, user_id, f1)
             upload_count == get_upload_stats(users, user_id, f2)
         IN  IF ~Truthy(api_key)
             THEN Set(t, [tasks[t] EXCEPT !.pc = "done",
                             !.msgs = <<Reply("AUTH_REQUIRED")>>])
             ELSE Set(t, [tasks[t] EXCEPT !.pc = "done",
                             !.user_api_key = api_key,
                             !.msgs = <<Msg("reply", "STATS",
                                            masked_key(api_key),
                                            upload_count)>>])
    /\ UNCHANGED <<users, files, clock, env, received, completed,
                   saved>>

\* handle_non_video: one fixed reply
NonVideo(t) ==
    /\ At(t, "nonvideo", "begin")
    /\ Set(t, [tasks[t] EXCEPT !.pc = "done",
                               !.msgs = <<Reply("UNSUPPORTED")>>])
    /\ UNCHANGED <<users, files, clock, env, received, completed,
                   saved>>

---------------------------------------------------------------------------
(* The remote provider: what one HTTP call can come back with *)

\* the upload endpoint the provider assigns
EndpointUrl == "https://upload.rpmshare.com/u1"

\* GET /api/upload/server: a transport error or timeout, a non-2xx status,
\* a 2xx body without 'result', with an empty 'result', with an endpoint
ServerOutcomes ==
    { [error |-> TRUE,  status |-> 0,   result |-> {}],
      [error |-> FALSE, status |-> 500, result |-> {}],
      [error |-> FALSE, status |-> 200, result |-> {}],
      [error |-> FALSE, status |-> 200, result |-> Some("")],
      [error |-> FALSE, status |-> 200, result |-> Some(EndpointUrl)] }

\* a JSON object of the submission reply: 'result' is a list of objects
\* that may carry 'filecode', 'msg' is a text; either key may be missing
Payload(result, msg) == [result |-> result, msg |-> msg]
Entry(filecode) == [filecode |-> filecode]
PayloadHandle   == Payload(Some(<<Entry(Some("fc1"))>>), {})
PayloadMsgOnly  == Payload({}, Some("quota exceeded"))
PayloadNoEntry  == Payload(Some(<<>>), Some("no file"))
PayloadNoCode   == Payload(Some(<<Entry({})>>), Some("bad file"))
PayloadBare     == Payload(Some(<<Entry({})>>), {})
PayloadEmpty    == Payload({}, {})
Payloads ==
    {PayloadHandle, PayloadMsgOnly, PayloadNoEntry, PayloadNoCode,
     PayloadBare, PayloadEmpty}

\* POST <endpoint>: a transport error or timeout, a non-2xx status, or a
\* 2xx reply with a JSON object
SubmitOutcomes ==
    { [error |-> TRUE,  status |-> 0,   json |-> {}],
      [error |-> FALSE, status |-> 500, json |-> {}] }
    \cup { [error |-> FALSE, status |-> 200, json |-> Some(p)] : p \in Payloads }

\* response.raise_for_status()
RaisesForStatus(status) == status >= 400

\* bool(dict): an object with no key is falsy
DictTruthy(d) == d.result # {} \/ d.msg # {}

---------------------------------------------------------------------------
(* handle_video *)

\* 1024 * 1024
BytesPerMB == 1048576
\* the ceiling of the size check, in MB
MaxMB == 500
\* max_retries of get_upload_server
ServerMaxRetries == 3
\* max_retries of upload_to_rpmshare
UploadMaxRetries == 3
\* the fixed delay of upload_to_rpmshare, in seconds
UploadDelay == 3

\* video.file_size: the ceiling itself and one byte more (a missing size
\* reads as 0 and goes the way of every size up to the ceiling)
FileSizes == {MaxMB * BytesPerMB, MaxMB * BytesPerMB + 1}

\* mutant: the size in MB is computed with integer division
OverLimitFloor(file_size) == file_size \div BytesPerMB > MaxMB

\* file_size_mb > 500, where file_size_mb = file_size / (1024 * 1024);
\* the division by a power of two is exact in floating point
OverLimit(file_size) == file_size > MaxMB * BytesPerMB

\* f"{file_size_mb:.1f}" as a number of tenths of a MB (round half to even)
SizeTenths(file_size) ==
    LET whole == file_size \div BytesPerMB
        part == (file_size % BytesPerMB) * 10
        q == whole * 10 + part \div BytesPerMB
        r == part % BytesPerMB
    IN  IF 2 * r > BytesPerMB THEN q + 1
        ELSE IF 2 * r = BytesPerMB THEN q + (q % 2)
        ELSE q

\* tempfile.NamedTemporaryFile(delete=False).name: a fresh path of the run
TempPath(t) == t

\* 2 ** attempt
Pow2(n) == IF n = 0 THEN 1 ELSE IF n = 1 THEN 2 ELSE 4

Say(t, m) == Append(tasks[t].msgs, m)

\* mutant: the request carries the key the store holds when it is sent
RequestNow(t) == tasks[t].requests \cup {StoredKey(tasks[t].user_id)}

\* a request goes out with the api_key argument, which is the run's
\* user_api_key (?key={api_key}, add_field('key', api_key)): the keys the
\* run has sent to the provider
Request(t) == tasks[t].requests \cup {tasks[t].user_api_key}

DispatchVideo(t, u, size) ==
    /\ Free(t)
    /\ Set(t, [Begin(t, "video", u) EXCEPT !.file_size = size])
    /\ received' = received + 1
    /\ UNCHANGED <<users, files, clock, env, completed, saved>>

\* mutant: the run goes on whatever get_user_api_key returned
VideoBeginNoGate(t) ==
    /\ At(t, "video", "begin")
    /\ \E fault \in FaultChoices :
         Set(t, [tasks[t] EXCEPT !.pc = "initiated",
                    !.user_api_key =
                        get_user_api_key(users, tasks[t].user_id, fault),
                    !.msgs = <<Reply("INITIATED")>>])
    /\ UNCHANGED <<users, files, clock, env, received, completed,
                   saved>>

\* lines 185-191: the credential is read; no key ends the run with the
\* access-denied reply, else the status message is sent
VideoBegin(t) ==
    /\ At(t, "video", "begin")
    /\ \E fault \in FaultChoices :
         LET user_api_key == get_user_api_key(users, tasks[t].user_id, fault)
         IN  IF ~Truthy(user_api_key)
             THEN Set(t, [tasks[t] EXCEPT !.pc = "done",
                             !.msgs = <<Reply("ACCESS_DENIED")>>])
             ELSE Set(t, [tasks[t] EXCEPT !.pc = "initiated",
                             !.user_api_key = user_api_key,
                             !.msgs = <<Reply("INITIATED")>>])
    /\ UNCHANGED <<users, files, clock, env, received, completed,
                   saved>>

\* lines 192-204: the size check; a file over the ceiling ends the run,
\* else the temporary file is created and get_file is awaited
VideoCheckSize(t) ==
    /\ At(t, "video", "initiated")
    /\ IF OverLimit(tasks[t].file_size)
       THEN /\ Set(t, [tasks[t] EXCEPT !.pc = "finally",
                          !.msgs = Say(t, Edit("SIZE_LIMIT"))])
            /\ UNCHANGED files
       ELSE /\ files' = files \cup {TempPath(t)}
            /\ Set(t, [tasks[t] EXCEPT !.pc = "get_file",
                          !.temp_file_path = Some(TempPath(t)),
                          !.created = @ + 1])
    /\ UNCHANGED <<users, clock, env, received, completed,
                   saved>>

\* mutant: the error text goes out as a new message
ExceptReplies(t, rec) ==
    [rec EXCEPT !.pc = "finally", !.msgs = Say(t, Reply("SYSTEM_ERROR"))]

\* the except clause of line 230: the error status is edited in
Except(t, rec) ==
    [rec EXCEPT !.pc = "finally", !.msgs = Say(t, Edit("SYSTEM_ERROR"))]

\* lines 204-205: get_file returns (or raises) and the download status is
\* edited in
VideoGetFile(t) ==
    /\ At(t, "video", "get_file")
    /\ \E ok \in BOOLEAN :
         IF ok
         THEN Set(t, [tasks[t] EXCEPT !.pc = "downloading",
                         !.msgs = Say(t, Msg("edit", "DOWNLOADING", "",
                                             SizeTenths(tasks[t].file_size)))])
         ELSE Set(t, Except(t, tasks[t]))
    /\ UNCHANGED <<users, files, clock, env, received, completed,
                   saved>>

\* line 206: the download status is in place and download_to_drive is
\* called
VideoStartDownload(t) ==
    /\ At(t, "video", "downloading")
    /\ Set(t, [tasks[t] EXCEPT !.pc = "download_wait", !.downloads = @ + 1])
    /\ UNCHANGED <<users, files, clock, env, received, completed,
                   saved>>

\* lines 206-208: download_to_drive returns (or raises) and the upload
\* status is edited in
VideoDownload(t) ==
    /\ At(t, "video", "download_wait")
    /\ \E ok \in BOOLEAN :
         IF ok
         THEN Set(t, [tasks[t] EXCEPT !.pc = "uploading",
                         !.msgs = Say(t, Msg("edit", "UPLOADING", "",
                                             SizeTenths(tasks[t].file_size)))])
         ELSE Set(t, Except(t, tasks[t]))
    /\ UNCHANGED <<users, files, clock, env, received, completed,
                   saved>>

\* line 210 into lines 151-156: get_upload_server is called and sends its
\* first request
VideoAcquire(t) ==
    /\ At(t, "video", "uploading")
    /\ Set(t, [tasks[t] EXCEPT !.pc = "server_get", !.attempt = 0,
                  !.server_calls = @ + 1, !.requests = Request(t)])
    /\ UNCHANGED <<users, files, clock, env, received, completed,
                   saved>>

\* line 215 into lines 167-175: upload_to_rpmshare is called and sends its
\* first request
CallUpload(t, upload_server) ==
    [tasks[t] EXCEPT !.pc = "submit_post", !.attempt = 0,
        !.upload_server = upload_server, !.submit_calls = @ + 1,
        !.requests = Request(t)]

\* mutant: the check of the endpoint is missing and the run goes on
NoServerGoesOn(t) == CallUpload(t, None)

\* lines 211-213: get_upload_server returned None
NoServer(t) ==
    [tasks[t] EXCEPT !.pc = "finally", !.attempt = 0,
        !.msgs = Say(t, Edit("SERVER_ACCESS_FAILED"))]

\* lines 154-165: one attempt of get_upload_server comes back
ServerAttempt(t) ==
    /\ At(t, "video", "server_get")
    /\ \E o \in ServerOutcomes :
         LET attempt == tasks[t].attempt
             raised == o.error \/ RaisesForStatus(o.status)
             usable == ~raised /\ o.result # {} /\ Truthy(The(o.result))
         IN  IF usable
             THEN Set(t, CallUpload(t, The(o.result)))
             ELSE IF raised /\ attempt < ServerMaxRetries - 1
             THEN Set(t, [tasks[t] EXCEPT !.pc = "server_sleep",
                             !.sleep = Pow2(attempt)])
             ELSE IF attempt + 1 < ServerMaxRetries
             THEN Set(t, [tasks[t] EXCEPT !.attempt = attempt + 1,
                             !.requests = Request(t)])
             ELSE Set(t, NoServer(t))
    /\ UNCHANGED <<users, files, clock, env, received, completed,
                   saved>>

\* line 164: the backoff sleep ends and the next request is sent
ServerWake(t) ==
    /\ At(t, "video", "server_sleep")
    /\ Set(t, [tasks[t] EXCEPT !.pc = "server_get", !.sleep = 0,
                  !.attempt = @ + 1, !.requests = Request(t)])
    /\ UNCHANGED <<users, files, clock, env, received, completed,
                   saved>>

\* upload_response.get('result', [{}]): the list under 'result'
ResultList(resp) ==
    IF resp.result # {} THEN The(resp.result) ELSE <<Entry({})>>

\* [0] raises IndexError on an empty list
FirstRaises(resp) == Len(ResultList(resp)) = 0

\* .get('filecode') of the first entry: the file handle or None
FileCode(resp) ==
    LET first == ResultList(resp)[1]
    IN  IF first.filecode # {} THEN The(first.filecode) ELSE None

\* upload_response.get('msg', 'Unknown error')
ProviderMsg(resp) == IF resp.msg # {} THEN The(resp.msg) ELSE "Unknown error"

\* mutant: the total is read before the increment
AfterUploadStale(t, T, resp, f1, f2) ==
    LET got == [tasks[t] EXCEPT !.attempt = 0, !.upload_response = resp]
        user_id == tasks[t].user_id
    IN  IF resp = {} \/ ~DictTruthy(The(resp))
        THEN [users |-> T, completed |-> FALSE,
              task  |-> [got EXCEPT !.pc = "finally",
                            !.msgs = Say(t, Edit("UPLOAD_FAILED"))]]
        ELSE IF FirstRaises(The(resp))
        THEN [users |-> T, completed |-> FALSE, task |-> Except(t, got)]
        ELSE IF Truthy(FileCode(The(resp)))
        THEN LET T2 == increment_upload_count(T, user_id, f1)
                 total_uploads == get_upload_stats(T, user_id, f2)
             IN  [users |-> T2, completed |-> TRUE,
                  task  |-> [got EXCEPT !.pc = "finally",
                                !.increments = @ + 1,
                                !.msgs = Say(t, Msg("edit", "COMPLETED",
                                                    FileCode(The(resp)),
                                                    total_uploads))]]
        ELSE [users |-> T, completed |-> FALSE,
              task  |-> [got EXCEPT !.pc = "finally",
                            !.msgs = Say(t, Msg("edit", "PROCESSING_ERROR",
                                                ProviderMsg(The(resp)), 0))]]

\* lines 216-232: what handle_video does with the value upload_to_rpmshare
\* returned: T is the table, resp the optional response; the result is the
\* table and the task record after it
AfterUpload(t, T, resp, f1, f2) ==
    LET got == [tasks[t] EXCEPT !.attempt = 0, !.upload_response = resp]
        user_id == tasks[t].user_id
    IN  IF resp = {} \/ ~DictTruthy(The(resp))
        THEN [users |-> T, completed |-> FALSE,
              task  |-> [got EXCEPT !.pc = "finally",
                            !.msgs = Say(t, Edit("UPLOAD_FAILED"))]]
        ELSE IF FirstRaises(The(resp))
        THEN [users |-> T, completed |-> FALSE, task |-> Except(t, got)]
        ELSE IF Truthy(FileCode(The(resp)))
        THEN LET T2 == increment_upload_count(T, user_id, f1)
                 total_uploads == get_upload_stats(T2, user_id, f2)
             IN  [users |-> T2, completed |-> TRUE,
                  task  |-> [got EXCEPT !.pc = "finally",
                                !.increments = @ + 1,
                                !.msgs = Say(t, Msg("edit", "COMPLETED",
                                                    FileCode(The(resp)),
                                                    total_uploads))]]
        ELSE [users |-> T, completed |-> FALSE,
              task  |-> [got EXCEPT !.pc = "finally",
                            !.msgs = Say(t, Msg("edit", "PROCESSING_ERROR",
                                                ProviderMsg(The(resp)), 0))]]

\* lines 170-182: one attempt of upload_to_rpmshare comes back; a response
\* is returned to handle_video, which goes on to its final status
SubmitAttempt(t) ==
    /\ At(t, "video", "submit_post")
    /\ \E o \in SubmitOutcomes, f1 \in FaultChoices, f2 \in FaultChoices :
         LET attempt == tasks[t].attempt
             raised == \/ The(tasks[t].temp_file_path) \notin files
                       \/ o.error
                       \/ RaisesForStatus(o.status)
             after == AfterUpload(t, users, IF raised THEN {} ELSE o.json,
                                  f1, f2)
         IN  IF raised /\ attempt < UploadMaxRetries - 1
             THEN /\ Set(t, [tasks[t] EXCEPT !.pc = "submit_sleep",
                                !.sleep = UploadDelay])
                  /\ UNCHANGED <<users, completed>>
             ELSE /\ users' = after.users
                  /\ completed' =
                       IF after.completed
                       THEN [completed EXCEPT ![tasks[t].user_id] = @ + 1]
                       ELSE completed
                  /\ Set(t, after.task)
    /\ UNCHANGED <<files, clock, env, received, saved>>

\* mutant: the attempt counter starts again after the delay
SubmitWakeRestarts(t) ==
    /\ At(t, "video", "submit_sleep")
    /\ Set(t, [tasks[t] EXCEPT !.pc = "submit_post", !.sleep = 0,
                  !.attempt = 0])
    /\ UNCHANGED <<users, files, clock, env, received, completed,
                   saved>>

\* line 181: the fixed delay ends and the next request is sent
SubmitWake(t) ==
    /\ At(t, "video", "submit_sleep")
    /\ Set(t, [tasks[t] EXCEPT !.pc = "submit_post", !.sleep = 0,
                  !.attempt = @ + 1, !.requests = Request(t)])
    /\ UNCHANGED <<users, files, clock, env, received, completed,
                   saved>>

\* mutant: the handler returns without the finally clause
VideoFinallyLeaks(t) ==
    /\ At(t, "video", "finally")
    /\ Set(t, [tasks[t] EXCEPT !.pc = "done"])
    /\ UNCHANGED <<users, files, clock, env, received, completed, saved>>

\* lines 233-235: the finally clause removes the temporary file if the run
\* made one and it is still there; the handler returns
VideoFinally(t) ==
    /\ At(t, "video", "finally")
    /\ LET temp_file_path == tasks[t].temp_file_path
       IN  IF temp_file_path # {} /\ The(temp_file_path) \in files
           THEN /\ files' = files \ {The(temp_file_path)}
                /\ Set(t, [tasks[t] EXCEPT !.pc = "done", !.unlinked = @ + 1])
           ELSE /\ UNCHANGED files
                /\ Set(t, [tasks[t] EXCEPT !.pc = "done"])
    /\ UNCHANGED <<users, clock, env, received, completed,
                   saved>>

---------------------------------------------------------------------------
(* Specifications *)

Start0 ==
    /\ users = {}
    /\ files = {}
    /\ clock = 0
    /\ tasks = [t \in Tasks |-> IdleTask]
    /\ received = 0
    /\ completed = [u \in UserIds |-> 0]
    /\ saved = [u \in UserIds |-> None]

\* a fresh database, no handler running; storage works and all updates
\* arrive within one second
Init == Start0 /\ env = Env(FALSE, FALSE)

\* the same with a clock that advances
InitTimed == Start0 /\ env = Env(FALSE, TRUE)

\* the same with storage operations that can fault
InitFaulty == Start0 /\ env = Env(TRUE, FALSE)

Next ==
    \/ \E t \in Tasks :
         \/ \E u \in UserIds :
              \/ DispatchStart(t, u)
              \/ \E args \in ArgLists : DispatchSetapi(t, u, args)
              \/ DispatchStats(t, u)
              \/ DispatchNonVideo(t, u)
              \/ \E size \in FileSizes : DispatchVideo(t, u, size)
         \/ Start(t)
         \/ Setapi(t)
         \/ Stats(t)
         \/ NonVideo(t)
         \/ VideoBegin(t)
         \/ VideoCheckSize(t)
         \/ VideoGetFile(t)
         \/ VideoStartDownload(t)
         \/ VideoDownload(t)
         \/ VideoAcquire(t)
         \/ ServerAttempt(t)
         \/ ServerWake(t)
         \/ SubmitAttempt(t)
         \/ SubmitWake(t)
         \/ VideoFinally(t)
         \/ Retire(t)

Spec == Init /\ [][Next]_vars

SpecTimed == InitTimed /\ [][Next]_vars

SpecFaulty == InitFaulty /\ [][Next]_vars

\* one step of the handler running in task t
Step(t) ==
    \/ Start(t)
    \/ Setapi(t)
    \/ Stats(t)
    \/ NonVideo(t)
    \/ VideoBegin(t)
    \/ VideoCheckSize(t)
    \/ VideoGetFile(t)
    \/ VideoStartDownload(t)
    \/ VideoDownload(t)
    \/ VideoAcquire(t)
    \/ ServerAttempt(t)
    \/ ServerWake(t)
    \/ SubmitAttempt(t)
    \/ SubmitWake(t)
    \/ VideoFinally(t)
    \/ Retire(t)

\* the event loop resumes every coroutine that can go on: a message call
\* returns, a sleep ends, a remote call returns or times out (timeout=45,
\* timeout=900)
Fairness == \A t \in Tasks : WF_vars(Step(t))

\* the fault-free behaviours in which no handler is left suspended forever
SpecLive == Spec /\ Fairness

---------------------------------------------------------------------------
(* Properties *)

\* the runs of handle_video
IsVideo(t) == tasks[t].kind = "video"
\* a run of handle_video that has returned
VideoDone(t) == At(t, "video", "done")
\* a run of handle_video past its last status edit
VideoFinal(t) == IsVideo(t) /\ tasks[t].pc \in {"finally", "done"}
\* the last message of a run
LastMsg(t) == tasks[t].msgs[Len(tasks[t].msgs)]
\* how many times a run sent message m
Sent(t, m) ==
    Cardinality({i \in DOMAIN tasks[t].msgs : tasks[t].msgs[i] = m})
\* the stored count of a user
CountOf(T, u) == get_upload_stats(T, u, FALSE)

\* C1: when a run of handle_video has returned, whatever branch it took, the
\* temporary file of the run is not on disk, and the run unlinked it as many
\* times as it created it: once if it made one, never otherwise.
C1_TempFileRemoved ==
    \A t \in Tasks :
        VideoDone(t) =>
            /\ TempPath(t) \notin files
            /\ tasks[t].temp_file_path # {}
                  => The(tasks[t].temp_file_path) \notin files
            /\ tasks[t].created = Cardinality(tasks[t].temp_file_path)
            /\ tasks[t].unlinked = tasks[t].created
            /\ tasks[t].unlinked <= 1

\* a run that made its temporary file and left through the except clause
\* has returned
C1_Witness ==
    \E t \in Tasks :
        /\ VideoDone(t)
        /\ tasks[t].created = 1
        /\ tasks[t].unlinked = 1
        /\ LastMsg(t) = Edit("SYSTEM_ERROR")

\* what C2 and others say a run did not do
NoRemoteWork(t) ==
    /\ tasks[t].downloads = 0
    /\ tasks[t].server_calls = 0
    /\ tasks[t].submit_calls = 0
    /\ tasks[t].increments = 0

\* a run whose file is over the 500 MB ceiling
Oversize(t) == IsVideo(t) /\ tasks[t].file_size > MaxMB * BytesPerMB

\* C2 as stated: every run with a file over the ceiling ends with the
\* size-limit status and does no download, remote call or increment.
C2_Original ==
    \A t \in Tasks :
        Oversize(t) =>
            /\ NoRemoteWork(t)
            /\ VideoDone(t) => LastMsg(t) = Edit("SIZE_LIMIT")

\* C2: a run with a file over the ceiling never downloads, never calls
\* get_upload_server or upload_to_rpmshare, never increments and makes no
\* temporary file; it ends with the size-limit status when the user has a
\* stored key, and with the access-denied reply alone when not.
C2_OversizeStops ==
    \A t \in Tasks :
        Oversize(t) =>
            /\ NoRemoteWork(t)
            /\ tasks[t].created = 0
            /\ VideoDone(t) =>
                 IF Truthy(tasks[t].user_api_key)
                 THEN /\ LastMsg(t) = Edit("SIZE_LIMIT")
                      /\ tasks[t].msgs =
                           <<Reply("INITIATED"), Edit("SIZE_LIMIT")>>
                 ELSE tasks[t].msgs = <<Reply("ACCESS_DENIED")>>

\* a run of a user with a key has ended on the size-limit status
C2_Witness ==
    \E t \in Tasks :
        /\ Oversize(t)
        /\ VideoDone(t)
        /\ Truthy(tasks[t].user_api_key)
        /\ LastMsg(t) = Edit("SIZE_LIMIT")

\* get_upload_server was called and returned no endpoint
ServerExhausted(t) ==
    /\ VideoFinal(t)
    /\ tasks[t].server_calls = 1
    /\ tasks[t].upload_server = None

\* C3: get_upload_server gives up only when its last attempt (the third) has
\* failed like those before it; the run then ends on the "server access
\* failed" status, edited in exactly once, without calling
\* upload_to_rpmshare and without incrementing the counter.
C3_NoEndpointNoSubmission ==
    /\ [](\A t \in Tasks :
            ServerExhausted(t) =>
                /\ LastMsg(t) = Edit("SERVER_ACCESS_FAILED")
                /\ Sent(t, Edit("SERVER_ACCESS_FAILED")) = 1
                /\ tasks[t].submit_calls = 0
                /\ tasks[t].increments = 0)
    /\ [][\A t \in Tasks :
            (At(t, "video", "server_get") /\ tasks'[t].pc = "finally")
                => /\ tasks[t].attempt = ServerMaxRetries - 1
                   /\ users' = users
                   /\ completed' = completed]_vars

\* a run whose three attempts to get an endpoint failed has returned
C3_Witness ==
    \E t \in Tasks :
        /\ ServerExhausted(t)
        /\ VideoDone(t)
        /\ LastMsg(t) = Edit("SERVER_ACCESS_FAILED")

\* the response carries a file handle
HasHandle(resp) ==
    /\ resp.result # {}
    /\ Len(The(resp.result)) > 0
    /\ The(resp.result)[1].filecode # {}
    /\ The(The(resp.result)[1].filecode) # ""
Handle(resp) == The(The(resp.result)[1].filecode)

\* upload_to_rpmshare returned a response with a file handle to the run
GotHandle(rec) ==
    rec.upload_response # {} /\ HasHandle(The(rec.upload_response))

\* C4: the step in which the submission returns a response with a file
\* handle adds exactly 1 to the upload_count of the run's user and leaves
\* every other user's row as it was; the run increments once, and its last
\* status edit is the success status with that handle.
C4_HandleCountsOnce ==
    /\ [][\A t \in Tasks :
            (At(t, "video", "submit_post") /\ GotHandle(tasks'[t])) =>
                /\ CountOf(users', tasks[t].user_id)
                     = CountOf(users, tasks[t].user_id) + 1
                /\ \A v \in UserIds \ {tasks[t].user_id} :
                     RowsOf(users', v) = RowsOf(users, v)]_vars
    /\ [](\A t \in Tasks :
            (VideoFinal(t) /\ GotHandle(tasks[t])) =>
                /\ tasks[t].increments = 1
                /\ LastMsg(t).op = "edit"
                /\ LastMsg(t).tag = "COMPLETED"
                /\ LastMsg(t).str = Handle(The(tasks[t].upload_response)))

\* a run that got a file handle has returned, while another user has a row
C4_Witness ==
    \E t \in Tasks :
        /\ VideoDone(t)
        /\ GotHandle(tasks[t])
        /\ CountOf(users, tasks[t].user_id) = 1
        /\ \E v \in UserIds \ {tasks[t].user_id} : RowsOf(users, v) # {}

\* C5 as stated: a run whose submission returned a response with a message
\* and no file handle does not increment and ends on the status that shows
\* the provider's message.
C5_NoHandleShowsMessage ==
    \A t \in Tasks :
        ( /\ VideoFinal(t)
          /\ tasks[t].upload_response # {}
          /\ ~HasHandle(The(tasks[t].upload_response))
          /\ The(tasks[t].upload_response).msg # {} ) =>
            /\ tasks[t].increments = 0
            /\ LastMsg(t) = Msg("edit", "PROCESSING_ERROR",
                                The(The(tasks[t].upload_response).msg), 0)

\* the step in which setapi saves the key it was given
SaveStep(t) ==
    /\ At(t, "setapi", "begin")
    /\ Len(tasks[t].args) > 0
    /\ tasks'[t].pc = "done"

\* C6 as stated: a save for a user with an account replaces the api_key of
\* the row and nothing else of it (upload_count, created_at); for a user
\* without an account it makes a row with upload_count 0.
C6_SaveReplacesOnlyKey ==
    [][\A t \in Tasks :
          SaveStep(t) =>
              LET u == tasks[t].user_id
                  k == Strip(Join(tasks[t].args))
              IN  IF RowsOf(users, u) # {}
                  THEN RowsOf(users', u) =
                         {[r EXCEPT !.api_key = k] : r \in RowsOf(users, u)}
                  ELSE \E ts \in 0..MaxClock :
                         RowsOf(users', u) = {Row(u, k, 0, ts)}]_vars

\* C7: the key get_user_api_key returns for a user is the key of that
\* user's last successful save, whatever was saved or counted for other
\* users since; and a save for one user leaves the rows of all other users
\* as they were.
C7_GetAfterSave ==
    /\ [](\A u \in UserIds :
            /\ saved[u] # None => get_user_api_key(users, u, FALSE) = saved[u]
            /\ saved[u] = None => get_user_api_key(users, u, FALSE) = None)
    /\ [][\A t \in Tasks :
            SaveStep(t) =>
                /\ get_user_api_key(users', tasks[t].user_id, FALSE)
                     = Strip(Join(tasks[t].args))
                /\ \A v \in UserIds \ {tasks[t].user_id} :
                     RowsOf(users', v) = RowsOf(users, v)]_vars

\* both users have saved different keys, and one has uploaded since
C7_Witness ==
    /\ \A u \in UserIds : saved[u] # None
    /\ saved[1] # saved[2]
    /\ \E u \in UserIds : completed[u] >= 1
    /\ \A u \in UserIds : get_user_api_key(users, u, FALSE) = saved[u]

RECURSIVE IncN(_, _, _)
\* increment_upload_count applied n times in sequence
IncN(T, u, n) ==
    IF n = 0 THEN T ELSE IncN(increment_upload_count(T, u, FALSE), u, n - 1)

\* C8 as stated: for every user id, n increments add n to the count that
\* get_upload_stats returns.
C8_Original ==
    \A u \in UserIds, n \in 0..MaxIncrements :
        CountOf(IncN(users, u, n), u) = CountOf(users, u) + n

\* C8: for every user with an account, n increments in sequence add exactly
\* n to the count get_upload_stats returns and leave the other users'
\* counts alone; for a user without an account get_upload_stats returns 0,
\* before and after any number of increments.
C8_IncrementsAdd ==
    \A u \in UserIds, n \in 0..MaxIncrements :
        /\ IF RowsOf(users, u) # {}
           THEN CountOf(IncN(users, u, n), u) = CountOf(users, u) + n
           ELSE CountOf(users, u) = 0 /\ CountOf(IncN(users, u, n), u) = 0
        /\ \A v \in UserIds \ {u} :
             CountOf(IncN(users, u, n), v) = CountOf(users, v)

\* a user whose count stands at 2 after two uploads, beside a user with no
\* account
C8_Witness ==
    \E u \in UserIds :
        /\ CountOf(users, u) = 2
        /\ completed[u] = 2
        /\ \E v \in UserIds : RowsOf(users, v) = {}

\* C9: the table never holds two rows for one user_id; and from one state
\* to the next no user's row disappears and no upload_count goes down.
C9_OneRowCountGrows ==
    /\ [](\A u \in UserIds : Cardinality(RowsOf(users, u)) <= 1)
    /\ [][\A u \in UserIds :
            \A r \in RowsOf(users, u) :
                /\ RowsOf(users', u) # {}
                /\ \A q \in RowsOf(users', u) :
                     q.upload_count >= r.upload_count]_vars

\* a user with an upload counted has just saved a key again
C9_Witness ==
    \E t \in Tasks :
        /\ At(t, "setapi", "done")
        /\ Len(tasks[t].args) > 0
        /\ CountOf(users, tasks[t].user_id) >= 1
        /\ saved[tasks[t].user_id] = Strip(Join(tasks[t].args))

\* no handler is running
Quiet == \A t \in Tasks : tasks[t].pc \in {"idle", "done"}

\* C10: once every handler has returned, each user's upload_count is the
\* number of that user's uploads that reached the success status (the
\* table starts empty), however the uploads and the saves interleaved.
C10_NoLostIncrement ==
    Quiet => \A u \in UserIds : CountOf(users, u) = completed[u]

\* two uploads of one user have succeeded that were in flight together, one
\* of them begun before the user saved the key now stored
C10_Witness ==
    /\ Quiet
    /\ \E u \in UserIds :
         /\ completed[u] = 2
         /\ \A t \in Tasks :
              /\ VideoDone(t)
              /\ tasks[t].user_id = u
              /\ GotHandle(tasks[t])
         /\ \E t \in Tasks : tasks[t].user_api_key # saved[u]

\* C11 as stated: the created_at of a user's row, once set by the first
\* insert, is the same in every later state: no save and no increment for
\* that user changes it.
C11_CreatedAtSetOnce ==
    [][\A u \in UserIds :
          \A r \in RowsOf(users, u) :
              \A q \in RowsOf(users', u) :
                  q.created_at = r.created_at]_vars

\* the intermediate statuses of an upload run, in the order of the code
Stages == <<"INITIATED", "DOWNLOADING", "UPLOADING">>
\* the texts that end an upload run
FinalTags ==
    {"SIZE_LIMIT", "SYSTEM_ERROR", "SERVER_ACCESS_FAILED", "UPLOAD_FAILED",
     "COMPLETED", "PROCESSING_ERROR"}
\* an upload run that read a key for its user
Authorized(t) == IsVideo(t) /\ Truthy(tasks[t].user_api_key)

\* C12: what an authorized upload run has sent is, at every moment, the
\* reply "initiated" followed only by edits: a prefix of downloading (size),
\* uploading (size) in that order, each with the size of the file, then at
\* most one final text, which is there exactly when the run is past its
\* last status; what was sent is never taken back or reordered, and nothing
\* is sent after the final text.
C12_StatusOrder ==
    /\ [](\A t \in Tasks :
            Authorized(t) =>
                LET m == tasks[t].msgs
                    n == Len(m)
                IN  /\ n >= 1
                    /\ m[1] = Reply("INITIATED")
                    /\ \A i \in 2..n : m[i].op = "edit"
                    /\ \E k \in 1..3 :
                         /\ n \in {k, k + 1}
                         /\ \A i \in 1..k : m[i].tag = Stages[i]
                         /\ \A i \in 2..k :
                              m[i].num = SizeTenths(tasks[t].file_size)
                         /\ n = k + 1 => m[n].tag \in FinalTags
                         /\ VideoFinal(t) <=> n = k + 1)
    /\ [][\A t \in Tasks :
            (Authorized(t) /\ tasks'[t].kind = "video") =>
                /\ Len(tasks'[t].msgs) >= Len(tasks[t].msgs)
                /\ SubSeq(tasks'[t].msgs, 1, Len(tasks[t].msgs))
                     = tasks[t].msgs
                /\ VideoFinal(t) => tasks'[t].msgs = tasks[t].msgs]_vars

\* one run has gone through all three statuses to the success text while
\* another failed before its download status
C12_Witness ==
    \E t \in Tasks, s \in Tasks :
        /\ VideoDone(t)
        /\ Len(tasks[t].msgs) = 4
        /\ tasks[t].msgs[3].tag = "UPLOADING"
        /\ tasks[t].msgs[4].tag = "COMPLETED"
        /\ VideoDone(s)
        /\ tasks[s].msgs = <<Reply("INITIATED"), Edit("SYSTEM_ERROR")>>

\* C13: an upload run that starts while the store gives no key for its
\* user (no row, or a read that faults) ends in that very step with the
\* access-denied reply and touches neither the table nor the disk; such a
\* run has made no temporary file, no download, no call of
\* get_upload_server or upload_to_rpmshare and no increment.  Conversely a
\* run goes past the gate only with the non-empty key stored for its user,
\* and every run that did any of those things holds such a key.
C13_NoKeyNoWork ==
    /\ [](\A t \in Tasks :
            (IsVideo(t) /\ tasks[t].pc # "begin") =>
                IF Truthy(tasks[t].user_api_key)
                THEN tasks[t].msgs[1] = Reply("INITIATED")
                ELSE /\ tasks[t].pc = "done"
                     /\ tasks[t].msgs = <<Reply("ACCESS_DENIED")>>
                     /\ tasks[t].created = 0
                     /\ tasks[t].temp_file_path = {}
                     /\ NoRemoteWork(t))
    /\ [][\A t \in Tasks :
            (At(t, "video", "begin") /\ tasks'[t] # tasks[t]) =>
                /\ users' = users
                /\ files' = files
                /\ ~Truthy(StoredKey(tasks[t].user_id))
                     => tasks'[t].pc = "done"
                /\ tasks'[t].pc # "done"
                     => /\ Truthy(StoredKey(tasks[t].user_id))
                        /\ tasks'[t].user_api_key
                             = StoredKey(tasks[t].user_id)]_vars

\* a run has ended on the access-denied reply although the store holds a
\* key for its user, and another run of a user without a row has too
C13_Witness ==
    \E t \in Tasks, s \in Tasks :
        /\ VideoDone(t)
        /\ tasks[t].msgs = <<Reply("ACCESS_DENIED")>>
        /\ Truthy(StoredKey(tasks[t].user_id))
        /\ VideoDone(s)
        /\ tasks[s].msgs = <<Reply("ACCESS_DENIED")>>
        /\ RowsOf(users, tasks[s].user_id) = {}

\* keys of 6, 7, 10 and 12 characters
KeySamples == Tokens \cup {"abcdefg", "0123456789"}

\* m is k with all but its last 6 characters replaced by the mask character
MaskedForm(m, k) ==
    LET n == Len(k)
    IN  /\ Len(m) = n
        /\ \A i \in 1..(n - 6) : SubSeq(m, i, i) = "*"
        /\ SubSeq(m, n - 5, n) = SubSeq(k, n - 5, n)

\* C14: for every key of 6 characters or more, masked_key is as long as the
\* key, has the mask character at every position but the last 6 and the
\* key's own last 6 characters there ("ABCDEF123456" gives "******123456");
\* and the key shown in a stats reply is that form of the key stats read.
C14_MaskedKey ==
    /\ \A k \in KeySamples : Len(k) >= 6 => MaskedForm(masked_key(k), k)
    /\ masked_key("ABCDEF123456") = "******123456"
    /\ \A t \in Tasks :
          (At(t, "stats", "done") /\ tasks[t].msgs[1].tag = "STATS") =>
              /\ Len(tasks[t].user_api_key) >= 6
                   => MaskedForm(tasks[t].msgs[1].str, tasks[t].user_api_key)
              /\ tasks[t].user_api_key = "ABCDEF123456"
                   => tasks[t].msgs[1].str = "******123456"

\* a stats reply has shown the 12-character key, and another the
\* 6-character one
C14_Witness ==
    \E t \in Tasks, s \in Tasks :
        /\ At(t, "stats", "done")
        /\ tasks[t].msgs = <<Msg("reply", "STATS", "******123456", 0)>>
        /\ At(s, "stats", "done")
        /\ tasks[s].msgs[1].tag = "STATS"
        /\ tasks[s].msgs[1].str = "S3cr3t"

\* C15 as stated: get_upload_server sends at most 3 requests; a failed
\* attempt of any kind (transport error, non-2xx status, 2xx reply without a
\* usable result) that is not the last is followed by a sleep of 2^attempt
\* seconds (1, then 2) before the next request, and a request other than
\* the first is sent only after such a sleep; the last failed attempt is
\* followed by no sleep and by the return of None, which ends the run on
\* the "server access failed" status; a usable result is returned at once.
C15_BackoffEveryRetry ==
    /\ [](\A t \in Tasks :
            tasks[t].pc \in {"server_get", "server_sleep"} =>
                /\ tasks[t].attempt < ServerMaxRetries
                /\ tasks[t].pc = "server_sleep" =>
                     /\ tasks[t].attempt < ServerMaxRetries - 1
                     /\ tasks[t].sleep = Pow2(tasks[t].attempt))
    /\ [][\A t \in Tasks :
            /\ ( /\ IsVideo(t)
                 /\ tasks'[t].pc = "server_get"
                 /\ tasks'[t].attempt = tasks[t].attempt + 1 ) =>
                   /\ tasks[t].pc = "server_sleep"
                   /\ tasks[t].sleep = Pow2(tasks[t].attempt)
            /\ (At(t, "video", "server_get") /\ tasks'[t] # tasks[t]) =>
                   \/ /\ tasks'[t].pc = "submit_post"
                      /\ tasks'[t].upload_server = EndpointUrl
                   \/ /\ tasks'[t].pc = "server_sleep"
                      /\ tasks[t].attempt < ServerMaxRetries - 1
                   \/ /\ tasks'[t].pc = "finally"
                      /\ tasks[t].attempt = ServerMaxRetries - 1
                      /\ LastMsg(t)' = Edit("SERVER_ACCESS_FAILED")]_vars

\* C16: upload_to_rpmshare sends at most 3 requests; a failed attempt that
\* is not the last is followed by the fixed 3-second delay, and a request
\* other than the first is sent only after that delay; the first attempt
\* that yields a response ends the call with that payload, and None is
\* returned only by the third failed attempt; get_upload_server likewise
\* never goes beyond its third attempt; and every upload run returns: no
\* task stays for ever in an upload run that has not returned.
C16_SubmitBounded ==
    /\ [](\A t \in Tasks :
            /\ tasks[t].pc \in {"submit_post", "submit_sleep"} =>
                 /\ tasks[t].attempt < UploadMaxRetries
                 /\ tasks[t].pc = "submit_sleep" =>
                      /\ tasks[t].attempt < UploadMaxRetries - 1
                      /\ tasks[t].sleep = UploadDelay
            /\ tasks[t].pc \in {"server_get", "server_sleep"} =>
                 tasks[t].attempt < ServerMaxRetries
            /\ tasks[t].upload_response # {} =>
                 The(tasks[t].upload_response) \in Payloads)
    /\ [][\A t \in Tasks :
            /\ ( /\ IsVideo(t)
                 /\ tasks'[t].pc = "submit_post"
                 /\ tasks'[t].attempt = tasks[t].attempt + 1 ) =>
                   /\ tasks[t].pc = "submit_sleep"
                   /\ tasks[t].sleep = UploadDelay
            /\ (At(t, "video", "submit_post") /\ tasks'[t] # tasks[t]) =>
                   \/ /\ tasks'[t].pc = "submit_sleep"
                      /\ tasks[t].attempt < UploadMaxRetries - 1
                      /\ tasks'[t].upload_response = {}
                   \/ /\ tasks'[t].pc = "finally"
                      /\ tasks'[t].upload_response = {}
                           => tasks[t].attempt = UploadMaxRetries - 1]_vars
    /\ \A t \in Tasks : []<>(~IsVideo(t) \/ VideoDone(t))

\* a run whose three submissions all failed has returned
C16_Witness ==
    \E t \in Tasks :
        /\ VideoDone(t)
        /\ tasks[t].submit_calls = 1
        /\ tasks[t].upload_response = {}
        /\ LastMsg(t) = Edit("UPLOAD_FAILED")

\* C17: a Credential Store operation that faults hands its caller the
\* degraded value and leaves the table as it was: get_user_api_key gives
\* None, save_user_api_key False, get_upload_stats 0, and
\* increment_upload_count returns.  In the handlers: a setapi that replies
\* with the confirmation has stored the key, and one that replies with the
\* error text has left the table unchanged; stats changes nothing and shows
\* the stored count or 0; an upload run whose response carries a file handle
\* still ends on the success status, with the count raised by 1 or, when
\* the increment faulted, unchanged.
C17_FaultsDegrade ==
    /\ [](\A u \in UserIds :
            /\ get_user_api_key(users, u, TRUE) = None
            /\ get_upload_stats(users, u, TRUE) = 0
            /\ increment_upload_count(users, u, TRUE) = users
            /\ \A k \in Tokens :
                 save_user_api_key(users, u, k, clock, TRUE)
                     = [users |-> users, ret |-> FALSE])
    /\ [][\A t \in Tasks :
            /\ SaveStep(t) =>
                 /\ tasks'[t].msgs \in {<<Reply("CONFIGURED")>>,
                                        <<Reply("SAVE_ERROR")>>}
                 /\ tasks'[t].msgs = <<Reply("CONFIGURED")>> =>
                      StoredKey(tasks[t].user_id)'
                          = Strip(Join(tasks[t].args))
                 /\ tasks'[t].msgs = <<Reply("SAVE_ERROR")>> =>
                      users' = users
            /\ (At(t, "stats", "begin") /\ tasks'[t] # tasks[t]) =>
                 /\ users' = users
                 /\ tasks'[t].pc = "done"
                 /\ tasks'[t].msgs[1].tag \in {"AUTH_REQUIRED", "STATS"}
                 /\ tasks'[t].msgs[1].num
                      \in {0, CountOf(users, tasks[t].user_id)}
            /\ (At(t, "video", "submit_post") /\ GotHandle(tasks'[t])) =>
                 /\ tasks'[t].pc = "finally"
                 /\ LastMsg(t)'.tag = "COMPLETED"
                 /\ users' \in {users,
                                increment_upload_count(users,
                                    tasks[t].user_id, FALSE)}]_vars

\* a setapi has answered with the error text and its user has no row, and
\* an upload has ended on the success status without being counted
C17_Witness ==
    \E t \in Tasks, s \in Tasks :
        /\ At(t, "setapi", "done")
        /\ tasks[t].msgs = <<Reply("SAVE_ERROR")>>
        /\ RowsOf(users, tasks[t].user_id) = {}
        /\ VideoDone(s)
        /\ LastMsg(s).tag = "COMPLETED"
        /\ CountOf(users, tasks[s].user_id) = 0

\* the last message of the run in its next state is the success status
Completes(t) ==
    /\ At(t, "video", "submit_post")
    /\ tasks'[t].pc = "finally"
    /\ tasks'[t].msgs[Len(tasks'[t].msgs)].tag = "COMPLETED"

\* C18 as stated: a step of a handler changes the table only if it is the
\* save of a setapi with an argument, which changes the api_key of its
\* user's row and nothing else (a user without a row gets one with
\* upload_count 0), or the step in which an upload reaches the success
\* status, which adds 1 to its user's upload_count and nothing else; start,
\* stats, the non-video handler, setapi without an argument and every other
\* step leave every row (api_key, upload_count, created_at) as it was.
C18_FrameOfHandlers ==
    [][\A t \in Tasks :
          tasks'[t] # tasks[t] =>
              LET u == tasks[t].user_id
              IN  IF SaveStep(t)
                  THEN /\ \A v \in UserIds \ {u} :
                            RowsOf(users', v) = RowsOf(users, v)
                       /\ IF RowsOf(users, u) # {}
                          THEN RowsOf(users', u) =
                                 {[r EXCEPT !.api_key =
                                              Strip(Join(tasks[t].args))]
                                    : r \in RowsOf(users, u)}
                          ELSE /\ Cardinality(RowsOf(users', u)) = 1
                               /\ CountOf(users', u) = 0
                  ELSE IF Completes(t)
                  THEN users' = increment_upload_count(users, u, FALSE)
                  ELSE users' = users]_vars

\* C19: an upload run takes its key from the store in its first step and
\* keeps it: the key held by the run is the same in every later state of
\* the run, whatever is saved meanwhile, and every request the run sends to
\* the provider (each get of the endpoint, each submission) carries that
\* key and no other.
C19_KeyReadOnce ==
    /\ [](\A t \in Tasks :
            IsVideo(t) =>
                /\ tasks[t].requests \subseteq {tasks[t].user_api_key}
                /\ tasks[t].server_calls + tasks[t].submit_calls > 0 =>
                     /\ tasks[t].requests = {tasks[t].user_api_key}
                     /\ Truthy(tasks[t].user_api_key))
    /\ [][\A t \in Tasks :
            /\ (At(t, "video", "begin") /\ tasks'[t].pc = "initiated") =>
                 tasks'[t].user_api_key = StoredKey(tasks[t].user_id)
            /\ ( /\ IsVideo(t)
                 /\ tasks[t].pc # "begin"
                 /\ tasks'[t].kind = "video" ) =>
                   tasks'[t].user_api_key = tasks[t].user_api_key]_vars

\* a run is at its third submission, all its requests sent with the key it
\* read, while the store now holds another key for its user
C19_Witness ==
    \E t \in Tasks :
        /\ At(t, "video", "submit_post")
        /\ tasks[t].attempt = UploadMaxRetries - 1
        /\ tasks[t].requests = {tasks[t].user_api_key}
        /\ Truthy(StoredKey(tasks[t].user_id))
        /\ StoredKey(tasks[t].user_id) # tasks[t].user_api_key

\* the success status of a run, if that is what it ended on
Reported(t) == IsVideo(t) /\ VideoFinal(t) /\ LastMsg(t).tag = "COMPLETED"

\* C20: the step in which an upload reaches the success status increments
\* and reads the total at once: the total it reports is its user's
\* upload_count right after the step, one more than right before it, and
\* the number of that user's uploads completed so far.  Hence the stored
\* count is always the number of completed uploads, no reported total is
\* above it, and two runs of one user never report the same total.
C20_TotalIsOwnIncrement ==
    /\ [][\A t \in Tasks :
            Completes(t) =>
                LET u == tasks[t].user_id
                    total == tasks'[t].msgs[Len(tasks'[t].msgs)].num
                IN  /\ total = CountOf(users', u)
                    /\ total = CountOf(users, u) + 1
                    /\ total = completed'[u]]_vars
    /\ [](\A u \in UserIds : CountOf(users, u) = completed[u])
    /\ [](\A t \in Tasks :
            Reported(t) =>
                /\ LastMsg(t).num >= 1
                /\ LastMsg(t).num <= CountOf(users, tasks[t].user_id)
                /\ \A s \in Tasks \ {t} :
                     (Reported(s) /\ tasks[s].user_id = tasks[t].user_id)
                         => LastMsg(s).num # LastMsg(t).num)

\* two uploads of one user have ended on the success status, one reporting
\* 1 and the other 2, and the stored count is 2
C20_Witness ==
    \E t \in Tasks, s \in Tasks :
        /\ Reported(t)
        /\ Reported(s)
        /\ tasks[t].user_id = tasks[s].user_id
        /\ LastMsg(t).num = 1
        /\ LastMsg(s).num = 2
        /\ CountOf(users, tasks[t].user_id) = 2

====
